---- MODULE Spec2Model ----
(***************************************************************************)
(* A model of the per-station statistics pipeline of ghcn-showcases:       *)
(* data_quality.check_data_quality, stats_processor.calculate_daily_       *)
(* statistics, calculate_monthly_statistics and process_station_data.      *)
(*                                                                         *)
(* Numbers.  polars computes in Float64; the model computes in exact       *)
(* rationals [n, d] (d > 0, lowest terms), with d = 0 standing for null.   *)
(* The two comparisons against 0.7 are integer inequalities here: for the  *)
(* counts the model reaches (below 2^31) the correctly rounded quotient    *)
(* a/b is >= the double 0.7 exactly when 10a >= 7b.                        *)
(***************************************************************************)
EXTENDS Integers, Sequences, FiniteSets, TLC

\* ------------------------------------------------------------------ bounds
\* Last year of observations of the fully observed stations.
LastYear == 1970
\* Exceptions the environment may inject into one call.
MaxFaults == 3
\* Worker processes of the pool of process_data (Pool(8) in the code), fewer
\* than the tasks so that tasks wait in the queue.
PoolWidth == 2

\* ------------------------------------------------------- program constants
\* check_data_quality(start_year=1970); the literal 1970 of both aggregators.
StartYear == 1970
\* The completeness threshold 0.7, as the fraction ThresholdNum/ThresholdDen.
ThresholdNum == 7
ThresholdDen == 10
\* DATA_VALUE / 10 for TMIN and TMAX.
UnitDivisor == 10
\* round(2) and float_precision=2: hundredths.
RoundScale == 100

\* elements: list[str] = ["TMIN", "TMAX", "PRCP"]
elements == <<"TMIN", "TMAX", "PRCP">>
Elements == {"TMIN", "TMAX", "PRCP"}

\* ---------------------------------------------------------------- numbers
NULL == [n |-> 0, d |-> 0]
IsNull(x) == x.d = 0

Abs(i) == IF i < 0 THEN -i ELSE i

RECURSIVE GCD(_, _)
GCD(a, b) == IF b = 0 THEN a ELSE GCD(b, a % b)

\* The rational n/d (d > 0) in lowest terms.
Rat(n, d) == LET g == GCD(Abs(n), d) IN [n |-> n \div g, d |-> d \div g]

RatLess(a, b) == a.n * b.d < b.n * a.d
RatAdd(a, b) == Rat(a.n * b.d + b.n * a.d, a.d * b.d)
RatDivInt(a, k) == Rat(a.n, a.d * k)

\* Expr.round(2): the nearest hundredth, ties away from zero; null stays null.
Round2(x) ==
    IF IsNull(x) THEN NULL
    ELSE LET h == (2 * RoundScale * Abs(x.n) + x.d) \div (2 * x.d)
         IN Rat(IF x.n < 0 THEN -h ELSE h, RoundScale)

\* ------------------------------------------------- column aggregates (polars)
\* A column of a group is a sequence of values.
NonNull(f) == {i \in DOMAIN f : ~IsNull(f[i])}

\* A variant of the minimum that takes the first non-null value (first, not
\* min).
ColMinFirst(f) ==
    IF NonNull(f) = {} THEN NULL
    ELSE f[CHOOSE i \in NonNull(f) : \A j \in NonNull(f) : i <= j]

\* Expr.min(): the smallest non-null value, null when there is none.
ColMin(f) ==
    IF NonNull(f) = {} THEN NULL
    ELSE f[CHOOSE i \in NonNull(f) : \A j \in NonNull(f) : ~RatLess(f[j], f[i])]

\* Expr.max(): the largest non-null value, null when there is none.
ColMax(f) ==
    IF NonNull(f) = {} THEN NULL
    ELSE f[CHOOSE i \in NonNull(f) : \A j \in NonNull(f) : ~RatLess(f[i], f[j])]

\* The sum of the non-null values of f[lo..hi], by halves.
RECURSIVE SumRange(_, _, _)
SumRange(f, lo, hi) ==
    IF lo > hi THEN Rat(0, 1)
    ELSE IF lo = hi THEN (IF IsNull(f[lo]) THEN Rat(0, 1) ELSE f[lo])
    ELSE LET mid == (lo + hi) \div 2
         IN RatAdd(SumRange(f, lo, mid), SumRange(f, mid + 1, hi))

\* Expr.sum(): nulls are skipped; the sum of no value is 0, not null.
ColSum(f) == SumRange(f, 1, Len(f))

\* A variant of the mean that does not divide by the count (sum, not mean).
ColMeanAsSum(f) ==
    IF NonNull(f) = {} THEN NULL ELSE ColSum(f)

\* Expr.mean(): the mean of the non-null values, null when there is none.
ColMean(f) ==
    IF NonNull(f) = {} THEN NULL
    ELSE RatDivInt(ColSum(f), Cardinality(NonNull(f)))

\* Expr.quantile(q) with polars' default interpolation "nearest": the value of
\* rank round(q * (n - 1)) among the n sorted non-null values; q = q10 / 10.
ColQuantile(f, q10) ==
    IF NonNull(f) = {} THEN NULL
    ELSE LET S == NonNull(f)
             idx == (q10 * (Cardinality(S) - 1) + 5) \div 10
             below(i) == Cardinality({j \in S : RatLess(f[j], f[i])})
             upto(i) == Cardinality({j \in S : ~RatLess(f[i], f[j])})
         IN f[CHOOSE i \in S : below(i) <= idx /\ idx < upto(i)]

\* --------------------------------------------------------------- calendar
IsLeap(y) == y % 4 = 0 /\ (y % 100 # 0 \/ y % 400 = 0)

\* Expr.dt.days_in_month()
DaysInMonth(y, m) ==
    IF m = 2 THEN (IF IsLeap(y) THEN 29 ELSE 28)
    ELSE IF m \in {4, 6, 9, 11} THEN 30 ELSE 31

\* ------------------------------------------------------------------ input
\* The relations data/merged/<element>.parquet, restricted to one station:
\* a function from DATE <<year, month, day>> to DATA_VALUE (an integer in
\* tenths, or null).  A station's rows are laid out in cells: the rows of
\* days lo..hi of one year-month, the first `valid` of them non-null.
Cell(y, m, lo, hi, valid) == [y |-> y, m |-> m, lo |-> lo, hi |-> hi, valid |-> valid]

\* The stored value of an observation; rows dated before 1970 hold extremes.
Val(e, dt) ==
    LET y == dt[1]  m == dt[2]  d == dt[3] IN
    IF y < StartYear THEN (IF e = "TMIN" THEN -999 ELSE 999)
    ELSE IF e = "TMIN" THEN ((7 * d + 3 * m + 11 * y) % 41) - 30
    ELSE IF e = "TMAX" THEN ((5 * d + 2 * m + 13 * y) % 37) + 100
    ELSE ((3 * d + m + y) % 5) * 10

Rel(cells, e) ==
    LET dom == UNION {{<<c.y, c.m, d>> : d \in c.lo..c.hi} : c \in cells}
        cellOf(dt) == CHOOSE c \in cells :
                         c.y = dt[1] /\ c.m = dt[2] /\ dt[3] \in c.lo..c.hi
    IN [dt \in dom |->
          IF dt[3] < cellOf(dt).lo + cellOf(dt).valid
          THEN Rat(Val(e, dt), 1) ELSE NULL]

\* ceil(0.7 * n): the least count of valid days that is 70% of n days.
LeastValid(n) == (ThresholdNum * n + ThresholdDen - 1) \div ThresholdDen

\* Year-months of 28, 29, 30 and 31 calendar days, each observed on exactly
\* LeastValid days, and a year-month of the same length observed on one day
\* fewer: cells on either side of the completeness threshold.
BoundaryCells ==
    {Cell(ym[1], ym[2], 1, LeastValid(DaysInMonth(ym[1], ym[2])),
          LeastValid(DaysInMonth(ym[1], ym[2]))) :
        ym \in {<<1971, 2>>, <<1972, 2>>, <<1971, 4>>, <<1971, 1>>}}
    \cup {Cell(ym[1], ym[2], 1, LeastValid(DaysInMonth(ym[1], ym[2])) - 1,
               LeastValid(DaysInMonth(ym[1], ym[2])) - 1) :
            ym \in {<<1973, 2>>, <<1976, 2>>, <<1972, 4>>, <<1972, 1>>}}

StationIds ==
    {"FULL", "NOPRCP", "SPARSE", "POOR1", "POOR2", "POOR3", "UNION", "CELLS",
     "REPEAT"}

\* Every month of 1970..LastYear, `short` trailing days of each month null,
\* after one month of 1969.
FullCells(short) ==
    {Cell(y, m, 1, DaysInMonth(y, m), DaysInMonth(y, m) - short) :
        y \in StartYear..LastYear, m \in 1..12}
    \cup {Cell(StartYear - 1, 12, 1, 31, 31)}

\* Ten rows of January 1971, `valid` of them non-null, after `pre` rows of
\* December 1969 of which `prevalid` are non-null.
TenCells(valid, pre, prevalid) ==
    {Cell(1971, 1, 1, 10, valid)}
    \cup (IF pre = 0 THEN {} ELSE {Cell(StartYear - 1, 12, 1, pre, prevalid)})

Cells(s, e) ==
    CASE s = "FULL" -> FullCells(IF e = "PRCP" THEN 2 ELSE 0)
      [] s = "NOPRCP" -> IF e = "PRCP" THEN {} ELSE FullCells(0)
      [] s = "SPARSE" ->
            IF e = "TMIN" THEN TenCells(7, 5, 0)
            ELSE IF e = "TMAX" THEN TenCells(10, 0, 0) ELSE TenCells(8, 0, 0)
      [] s = "POOR1" ->
            IF e = "TMIN" THEN TenCells(6, 5, 5) ELSE TenCells(10, 0, 0)
      [] s = "POOR2" ->
            IF e = "TMAX" THEN TenCells(6, 0, 0) ELSE TenCells(10, 0, 0)
      [] s = "POOR3" ->
            IF e = "PRCP" THEN {Cell(StartYear - 1, 12, 1, 31, 31)}
            ELSE TenCells(10, 0, 0)
      [] s = "UNION" ->
            IF e = "TMIN" THEN {Cell(1971, 1, 1, 25, 25)}
            ELSE IF e = "TMAX"
            THEN {Cell(1970, 1, 1, 31, 31), Cell(1971, 1, 5, 31, 27),
                  Cell(1971, 2, 1, 20, 20)}
            ELSE {Cell(1972, 2, 1, 20, 20), Cell(1971, 4, 1, 22, 21)}
      [] s = "CELLS" ->
            IF e = "TMAX"
            THEN {Cell(1971, 2, 1, 28, 28), Cell(1972, 1, 1, 31, 31),
                  \* 30 rows of a 30-day month, 20 of them non-null
                  Cell(1971, 4, 1, 30, 20)}
            ELSE BoundaryCells
      [] s = "REPEAT" ->
            \* PRCP: ten days of March in 1970 and in 1975, which hold the same
            \* values, and the first five of them in 1971 with other values
            IF e = "PRCP"
            THEN {Cell(1970, 3, 1, 10, 10), Cell(1975, 3, 1, 10, 10),
                  Cell(1971, 3, 1, 5, 5)}
            ELSE TenCells(10, 0, 0)

\* LazyFrame.collect(): the same relation, evaluated.
collect(lf) == lf @@ <<>>

\* The rows of station s in data/merged/<e>.parquet.
Input(s, e) == collect(Rel(Cells(s, e), e))

\* ---------------------------------------------------------- quality gate
\* A variant of the filter that keeps every row (no cutoff year).
FromYearUnfiltered(df, start_year) == DOMAIN df

\* df.filter(pl.col("DATE").dt.year() >= start_year)
FromYear(df, start_year) == {dt \in DOMAIN df : dt[1] >= start_year}

valid_count(df, start_year) ==
    Cardinality({dt \in FromYear(df, start_year) : ~IsNull(df[dt])})

total_count(df, start_year) == Cardinality(FromYear(df, start_year))

\* completeness_ratio = valid_count / total_count if total_count > 0 else 0.0
completeness_ratio(df, start_year) ==
    IF total_count(df, start_year) > 0
    THEN Rat(valid_count(df, start_year), total_count(df, start_year))
    ELSE Rat(0, 1)

\* A variant of the threshold test that excludes the boundary (>, not >=).
MeetsThresholdStrict(ratio) == ratio.n * ThresholdDen > ThresholdNum * ratio.d

\* completeness_ratio >= 0.7
MeetsThreshold(ratio) == ratio.n * ThresholdDen >= ThresholdNum * ratio.d

check_data_quality(df, start_year) ==
    [is_good |-> MeetsThreshold(completeness_ratio(df, start_year)),
     ratio |-> completeness_ratio(df, start_year)]

\* ------------------------------------------------------------- data frames
\* A DataFrame is [cols: the column names in order, rows: a sequence of
\* functions from column name to value].  Key columns (DAY, MONTH,
\* DAY_OF_MONTH, YEAR, PERIOD_START) are never null; every other value is a
\* rational or NULL.
Range(sq) == {sq[i] : i \in DOMAIN sq}
Frame(cols, rows) == [cols |-> cols, rows |-> rows]

\* f"{element}_{suffix}"
Col(e, suffix) == e \o "_" \o suffix

\* The subsequence of sq[lo..hi] of the elements in S, by halves.
RECURSIVE FilterRange(_, _, _, _)
FilterRange(sq, S, lo, hi) ==
    IF lo > hi THEN <<>>
    ELSE IF lo = hi THEN (IF sq[lo] \in S THEN <<sq[lo]>> ELSE <<>>)
    ELSE LET mid == (lo + hi) \div 2
         IN FilterRange(sq, S, lo, mid) \o FilterRange(sq, S, mid + 1, hi)

\* The subsequence of sq of the elements in S.
Filter(sq, S) == FilterRange(sq, S, 1, Len(sq))

\* DataFrame.select(names) on columns the frame has.
Select(df, names) ==
    Frame(names, [i \in DOMAIN df.rows |-> [c \in Range(names) |-> df.rows[i][c]]])

\* DataFrame.drop(names)
Drop(df, names) ==
    Select(df, Filter(df.cols, Range(df.cols) \ names))

\* DataFrame.vstack(other)
VStack(a, b) == Frame(a.cols, a.rows \o b.rows)

\* The index of the rows of rows[lo..hi] by the values of their key columns,
\* by halves; of two rows of one key the first is indexed.
RECURSIVE KeyIndex(_, _, _, _)
KeyIndex(rows, on, lo, hi) ==
    IF lo > hi THEN <<>>
    ELSE IF lo = hi THEN [c \in on |-> rows[lo][c]] :> lo
    ELSE LET mid == (lo + hi) \div 2
         IN KeyIndex(rows, on, lo, mid) @@ KeyIndex(rows, on, mid + 1, hi)

\* A variant of the join that keeps only the rows of left with a match in
\* right (how="inner").
JoinInner(left, right, on) ==
    LET added == Filter(right.cols, Range(right.cols) \ on)
        index == KeyIndex(right.rows, on, 1, Len(right.rows))
        matched == Filter(left.rows,
                          {r \in Range(left.rows) : [c \in on |-> r[c]] \in DOMAIN index})
    IN Frame(left.cols \o added,
             [i \in DOMAIN matched |->
                 matched[i] @@ [c \in Range(added) |->
                                   right.rows[index[[k \in on |-> matched[i][k]]]][c]]])

\* left.join(right, on=on, how="left"): every row of left is kept; the columns
\* of right other than the keys are taken from the row of right with the same
\* key, and are null when right has no such row.  Keys are unique in right.
JoinLeft(left, right, on) ==
    LET added == Filter(right.cols, Range(right.cols) \ on)
        index == KeyIndex(right.rows, on, 1, Len(right.rows))
        extend(r) ==
            LET k == [c \in on |-> r[c]]
            IN IF k \in DOMAIN index
               THEN [c \in Range(added) |-> right.rows[index[k]][c]]
               ELSE [c \in Range(added) |-> NULL]
    IN Frame(left.cols \o added,
             [i \in DOMAIN left.rows |->
                 LET r == left.rows[i] IN r @@ extend(r)])

\* with_columns([pl.col(c).round(2) for c in names])
RoundCols(df, names) ==
    Frame(df.cols,
          [i \in DOMAIN df.rows |->
              [c \in Range(df.cols) |->
                  IF c \in names THEN Round2(df.rows[i][c]) ELSE df.rows[i][c]]])

\* The five statistic columns of one element.
StatCols(e, p10, p90, mn, mx, sm) ==
    (Col(e, "P10") :> p10) @@ (Col(e, "P90") :> p90) @@ (Col(e, "MIN") :> mn)
    @@ (Col(e, "MAX") :> mx) @@ (Col(e, "SUM") :> sm)

StatNames(e) ==
    <<Col(e, "P10"), Col(e, "P90"), Col(e, "MIN"), Col(e, "MAX"), Col(e, "SUM")>>

\* The calendar positions <<month, day-of-month>> in ascending order.
CalendarDays == [i \in 1..(12 * 31) |-> <<((i - 1) \div 31) + 1, ((i - 1) % 31) + 1>>]

\* .sort(["MONTH", "DAY_OF_MONTH"]) of distinct calendar positions.
SortDays(S) == Filter(CalendarDays, S)

\* .sort("MONTH") of distinct months.
SortMonths(S) == Filter([i \in 1..12 |-> i], S)

\* .sort(["YEAR", "MONTH"]) of distinct year-months.
SortYearMonths(S) ==
    IF S = {} THEN <<>>
    ELSE LET ys == {ym[1] : ym \in S}
             y0 == CHOOSE y \in ys : \A z \in ys : y <= z
             y1 == CHOOSE y \in ys : \A z \in ys : z <= y
             all == [i \in 1..(12 * (y1 - y0 + 1)) |->
                        <<y0 + ((i - 1) \div 12), ((i - 1) % 12) + 1>>]
         IN Filter(all, S)

\* The latest year of the rows of df, StartYear - 1 when it has none from
\* StartYear on.
LastDataYear(df) ==
    LET ys == {dt[1] : dt \in FromYear(df, StartYear)}
    IN IF ys = {} THEN StartYear - 1 ELSE CHOOSE y \in ys : \A z \in ys : z <= y

\* ---------------------------------------------------------- daily aggregator
\* Only TMIN and TMAX need to be divided by 10 for unit conversion.
UnitConvert(df, e) ==
    IF e \in {"TMIN", "TMAX"}
    THEN [dt \in DOMAIN df |->
            IF IsNull(df[dt]) THEN NULL ELSE RatDivInt(df[dt], UnitDivisor)]
    ELSE df

\* The DATA_VALUE column of the group of the rows of df dated `dates`.
GroupCol(df, dates) == [i \in DOMAIN dates |-> df[dates[i]]]

calculate_daily_statistics(df, element) ==
    LET F == FromYear(df, StartYear)
        keys == {<<dt[2], dt[3]>> : dt \in F}
        years == [i \in 1..(LastDataYear(df) - StartYear + 1) |-> StartYear + i - 1]
        sorted == SortDays(keys)
        q10(c) == ColQuantile(c, 1)
        q90(c) == ColQuantile(c, 9)
        row(i) ==
            LET k == sorted[i]
                \* group_by(["MONTH", "DAY_OF_MONTH"]): the annual rows of the key
                annual == Filter([j \in DOMAIN years |-> <<years[j], k[1], k[2]>>],
                                 DOMAIN df)
                \* group_by(["YEAR", "MONTH", "DAY_OF_MONTH"]): the rows of one date
                cell(j) == GroupCol(df, <<annual[j]>>)
                over(stat(_)) == [j \in DOMAIN annual |-> stat(cell(j))]
            \* with_row_index("DAY", offset=1)
            IN ("DAY" :> i) @@ ("MONTH" :> k[1]) @@ ("DAY_OF_MONTH" :> k[2])
               @@ StatCols(element, ColMean(over(q10)), ColMean(over(q90)),
                           ColMin(over(ColMin)), ColMax(over(ColMax)),
                           ColMean(over(ColSum)))
    IN Frame(<<"DAY", "MONTH", "DAY_OF_MONTH">> \o StatNames(element),
             [i \in DOMAIN sorted |-> row(i)])

\* -------------------------------------------------------- monthly aggregator
\* A variant of the cell filter that excludes the boundary (>, not >=).
CellCompleteStrict(valid, days) == valid * ThresholdDen > ThresholdNum * days

\* (VALID_COUNT / DAYS_IN_MONTH) >= 0.7
CellComplete(valid, days) == valid * ThresholdDen >= ThresholdNum * days

\* The rows of monthly_summary: the (year, month) cells from 1970 on that pass
\* the completeness filter, sorted by (YEAR, MONTH).
monthly_summary(df, element) ==
    LET F == FromYear(df, StartYear)
        rowsOf(ym) == Filter([d \in 1..31 |-> <<ym[1], ym[2], d>>], F)
        VALID_COUNT(ym) == Cardinality(NonNull(GroupCol(df, rowsOf(ym))))
        kept == {ym \in {<<dt[1], dt[2]>> : dt \in F} :
                    CellComplete(VALID_COUNT(ym), DaysInMonth(ym[1], ym[2]))}
        sorted == SortYearMonths(kept)
        row(ym) ==
            LET dates == rowsOf(ym)
                col == GroupCol(df, dates)
            IN ("YEAR" :> ym[1]) @@ ("MONTH" :> ym[2])
               @@ ("PERIOD_START" :> <<ym[1], ym[2], 1>>)
               @@ StatCols(element, ColQuantile(col, 1), ColQuantile(col, 9),
                           ColMin(col), ColMax(col), ColSum(col))
               @@ (Col(element, "ENTRY_COUNT") :> Rat(Len(dates), 1))
    IN [i \in DOMAIN sorted |-> row(sorted[i])]

monthly_history(df, element) ==
    Frame(<<"YEAR", "MONTH", "PERIOD_START">> \o StatNames(element)
              \o <<Col(element, "ENTRY_COUNT")>>,
          monthly_summary(df, element))

\* monthly_history.group_by("MONTH").agg(...).sort("MONTH")
monthly_climatology(history, element) ==
    LET months == {history.rows[i]["MONTH"] : i \in DOMAIN history.rows}
        sorted == SortMonths(months)
        grp(m) == Filter([i \in DOMAIN history.rows |-> i],
                         {i \in DOMAIN history.rows : history.rows[i]["MONTH"] = m})
        column(m, c) == [i \in DOMAIN grp(m) |-> history.rows[grp(m)[i]][c]]
        row(m) == ("MONTH" :> m)
                  @@ StatCols(element,
                              ColMean(column(m, Col(element, "P10"))),
                              ColMean(column(m, Col(element, "P90"))),
                              ColMin(column(m, Col(element, "MIN"))),
                              ColMax(column(m, Col(element, "MAX"))),
                              ColMean(column(m, Col(element, "SUM"))))
    IN Frame(<<"MONTH">> \o StatNames(element), [i \in DOMAIN sorted |-> row(sorted[i])])

calculate_monthly_statistics(df, element) ==
    LET history == monthly_history(df, element)
    IN [climatology |-> monthly_climatology(history, element), history |-> history]

\* ------------------------------------------------------------------ combiner
None == [none |-> TRUE]

\* The frames that are not None, in order.
Present(frames) == Filter(frames, Range(frames) \ {None})

\* An eager select raises ColumnNotFoundError when a named column is missing.
SelectRaises(df, names) == \E c \in Range(names) : c \notin Range(df.cols)

\* keys_df = key_frames[0]; for kdf in key_frames[1:]: keys_df = keys_df.vstack(kdf)
RECURSIVE StackKeys(_, _, _)
StackKeys(frames, names, i) ==
    IF i = 1 THEN Select(frames[1], names)
    ELSE VStack(StackKeys(frames, names, i - 1), Select(frames[i], names))

\* keys_df.unique().sort(["MONTH", "DAY_OF_MONTH"]).with_row_count("DAY", offset=1)
DailyKeys(frames) ==
    LET stacked == StackKeys(frames, <<"MONTH", "DAY_OF_MONTH">>, Len(frames))
        sorted == SortDays({<<r["MONTH"], r["DAY_OF_MONTH"]>> : r \in Range(stacked.rows)})
    IN Frame(<<"DAY", "MONTH", "DAY_OF_MONTH">>,
             [i \in DOMAIN sorted |->
                 ("DAY" :> i) @@ ("MONTH" :> sorted[i][1]) @@ ("DAY_OF_MONTH" :> sorted[i][2])])

\* keys_df.unique().sort("MONTH")
MonthKeys(frames) ==
    LET stacked == StackKeys(frames, <<"MONTH">>, Len(frames))
        sorted == SortMonths({r["MONTH"] : r \in Range(stacked.rows)})
    IN Frame(<<"MONTH">>, [i \in DOMAIN sorted |-> ("MONTH" :> sorted[i])])

\* if df is not None: combined_df = combined_df.join(df, on=on, how="left")
JoinIfPresent(combined, df, dropped, on) ==
    IF df = None THEN combined ELSE JoinLeft(combined, Drop(df, dropped), on)

\* A variant of the monthly select that keeps the five statistics of each of
\* the three elements.
MonthlyColumnsFull ==
    <<"MONTH">> \o StatNames("TMIN") \o StatNames("TMAX") \o StatNames("PRCP")

\* The columns of the final select of the daily and of the monthly branch.
DailyColumns ==
    <<"DAY", "TMIN_P10", "TMAX_P90", "TMIN_MIN", "TMAX_MAX", "PRCP_SUM",
      "MONTH", "DAY_OF_MONTH">>
MonthlyColumns ==
    <<"MONTH", "TMIN_P10", "TMAX_P90", "TMIN_MIN", "TMAX_MAX", "PRCP_SUM">>
RoundedColumns == {"TMIN_P10", "TMAX_P90", "TMIN_MIN", "TMAX_MAX", "PRCP_SUM"}

\* The daily branch up to the final select.
DailyJoined(tmin, tmax, prcp) ==
    LET on == {"MONTH", "DAY_OF_MONTH"}
        keys_df == DailyKeys(Present(<<tmin, tmax, prcp>>))
    IN JoinIfPresent(JoinIfPresent(JoinIfPresent(keys_df, tmin, {"DAY"}, on),
                                   tmax, {"DAY"}, on), prcp, {"DAY"}, on)

\* The monthly branch up to the final select.
MonthlyJoined(tmin, tmax, prcp) ==
    LET on == {"MONTH"}
        keys_df == MonthKeys(Present(<<tmin, tmax, prcp>>))
    IN JoinIfPresent(JoinIfPresent(JoinIfPresent(keys_df, tmin, {}, on),
                                   tmax, {}, on), prcp, {}, on)

\* combined_df.select([...round(2)...])
FinalSelect(joined, names) == RoundCols(Select(joined, names), RoundedColumns)

\* ------------------------------------------------------------ history merge
\* A variant of the filter with the test inverted (is_empty, not "not
\* is_empty").
NonEmptyHistoryInverted(sources) ==
    Filter(sources, {h \in Range(sources) \ {None} : Len(h.rows) = 0})

\* non_empty_history = [df for df in history_sources if df is not None and not df.is_empty()]
NonEmptyHistory(sources) ==
    Filter(sources, {h \in Range(sources) \ {None} : Len(h.rows) > 0})

\* A variant of the keys of the merge that takes those of the first history
\* only (no vstack of the others).
HistoryKeysFirst(frames) ==
    Frame(<<"YEAR", "MONTH", "PERIOD_START">>,
          Select(frames[1], <<"YEAR", "MONTH", "PERIOD_START">>).rows)

\* group_by(["YEAR", "MONTH"]).agg(PERIOD_START.min()).sort(["YEAR", "MONTH"])
HistoryKeys(frames) ==
    LET stacked == StackKeys(frames, <<"YEAR", "MONTH", "PERIOD_START">>, Len(frames))
        sorted == SortYearMonths({<<r["YEAR"], r["MONTH"]>> : r \in Range(stacked.rows)})
        starts(ym) == {r["PERIOD_START"] : r \in {x \in Range(stacked.rows) :
                                                     x["YEAR"] = ym[1] /\ x["MONTH"] = ym[2]}}
        \* the earliest date of the group: dates of one year-month differ in the day
        earliest(ym) == CHOOSE p \in starts(ym) : \A q \in starts(ym) : p[3] <= q[3]
    IN Frame(<<"YEAR", "MONTH", "PERIOD_START">>,
             [i \in DOMAIN sorted |->
                 ("YEAR" :> sorted[i][1]) @@ ("MONTH" :> sorted[i][2])
                 @@ ("PERIOD_START" :> earliest(sorted[i]))])

\* value_columns, in the order element by element, suffix by suffix
ValueColumns == StatNames("TMIN") \o StatNames("TMAX") \o StatNames("PRCP")
EntryColumns == <<"TMIN_ENTRY_COUNT", "TMAX_ENTRY_COUNT", "PRCP_ENTRY_COUNT">>

\* The merged monthly history, None when every history is None or empty.
MergeHistory(tmin_h, tmax_h, prcp_h) ==
    LET non_empty_history == NonEmptyHistory(<<tmin_h, tmax_h, prcp_h>>)
        on == {"YEAR", "MONTH"}
        joined == JoinIfPresent(
                      JoinIfPresent(
                          JoinIfPresent(HistoryKeys(non_empty_history),
                                        tmin_h, {"PERIOD_START"}, on),
                          tmax_h, {"PERIOD_START"}, on),
                      prcp_h, {"PERIOD_START"}, on)
        existing_value_columns == Filter(ValueColumns, Range(joined.cols))
        entry_columns == Filter(EntryColumns, Range(joined.cols))
    IN IF Len(non_empty_history) = 0 THEN None
       ELSE Select(RoundCols(joined, Range(existing_value_columns)),
                   <<"PERIOD_START", "YEAR", "MONTH">>
                       \o existing_value_columns \o entry_columns)

\* ------------------------------------------------------ process_station_data
TimeWindows == {"1d", "1mo"}

\* period = "daily" if time_window == "1d" else "monthly"
period(tw) == IF tw = "1d" THEN "daily" ELSE "monthly"

\* The paths under output_dir, written without the f"{station_id}-" prefix
\* they all share.
output_file(tw) == period(tw) \o ".csv"
\* A variant of the name of the summary without the period.
summary_file_shared(tw) == "stats.json"
summary_file(tw) == period(tw) \o "-stats.json"
history_output == "monthly-history.csv"
Paths == {output_file(tw) : tw \in TimeWindows}
         \cup {summary_file(tw) : tw \in TimeWindows} \cup {history_output}

VARIABLES
    station_id,         \* the station of this output directory
    merged,             \* data/merged/<element>.parquet: the station's rows
    time_window,        \* argument of the call in progress (or of the last call)
    overwrite,          \* argument of the call in progress (or of the last call)
    pc,                 \* position of the call: "idle" when none is in progress
    idx,                \* index in `elements` of the element the loop is at
    tmin_data, tmax_data, prcp_data,
    tmin_history, tmax_history, prcp_history,
    raw_entry_counts,   \* dict: element -> count
    data_quality,       \* dict: element -> (is_good, ratio)
    combined_df,
    monthly_history_df,
    fs,                 \* the files of output_dir: path -> content, None if absent
    scanned,            \* the elements whose relation this call has read
    written,            \* the paths this call has written
    raised,             \* whether the last call ended by raising to its caller
    faults,             \* exceptions the environment injected into this call
    \* process.py: main, process_data and dump_matched_as_geojson
    main_pc,            \* position of main: "rest" when it is not running
    row,                \* index of the station the loop of main is at
    queue,              \* the pool's task queue: tasks applied and not yet taken
    task,               \* task -> position of its process_station_data call
    disk,               \* path -> who wrote the file or directory, None if absent
    features            \* station index -> the MISSING property exported for it

vars == <<station_id, merged, time_window, overwrite, pc, idx, tmin_data, tmax_data,
          prcp_data, tmin_history, tmax_history, prcp_history, raw_entry_counts,
          data_quality, combined_df, monthly_history_df, fs, scanned, written,
          raised, faults, main_pc, row, queue, task, disk, features>>

station == <<station_id, merged>>
args == <<time_window, overwrite>>
tables == <<tmin_data, tmax_data, prcp_data, tmin_history, tmax_history, prcp_history>>
dicts == <<raw_entry_counts, data_quality>>
outputs == <<combined_df, monthly_history_df>>
\* The variables of one call of process_station_data, and those of main.
call == <<station_id, merged, time_window, overwrite, pc, idx, tmin_data, tmax_data,
          prcp_data, tmin_history, tmax_history, prcp_history, raw_entry_counts,
          data_quality, combined_df, monthly_history_df, fs, scanned, written,
          raised, faults>>
orchestration == <<main_pc, row, queue, task, disk, features>>

\* An empty dict.
EmptyDict == [e \in {} |-> 0]

\* dict.get(key, default)
Get(dict, key, default) == IF key \in DOMAIN dict THEN dict[key] ELSE default

\* dict[key] = value
Put(dict, key, value) == [k \in DOMAIN dict \cup {key} |-> IF k = key THEN value ELSE dict[k]]

\* output_file.exists()
Exists(path) == fs[path] # None

\* main is not running: the single call is made on its own.
MainAtRest ==
    /\ main_pc = "rest"
    /\ row = 1
    /\ queue = <<>>
    /\ task = EmptyDict
    /\ disk = EmptyDict
    /\ features = EmptyDict

\* No call has been made yet in the output directory of station_id.
NoCallYet ==
    /\ merged = [e \in Elements |-> Input(station_id, e)]
    /\ time_window = "1d"
    /\ overwrite = FALSE
    /\ pc = "idle"
    /\ idx = 1
    /\ tmin_data = None /\ tmax_data = None /\ prcp_data = None
    /\ tmin_history = None /\ tmax_history = None /\ prcp_history = None
    /\ raw_entry_counts = EmptyDict
    /\ data_quality = EmptyDict
    /\ combined_df = None
    /\ monthly_history_df = None
    /\ fs = [p \in Paths |-> None]
    /\ scanned = {}
    /\ written = {}
    /\ raised = FALSE
    /\ faults = 0

Init ==
    /\ MainAtRest
    /\ station_id \in StationIds
    /\ NoCallYet

\* The locals of a fresh call (lines 193-200 and 261).
FreshLocals ==
    /\ idx' = 1
    /\ tmin_data' = None /\ tmax_data' = None /\ prcp_data' = None
    /\ tmin_history' = None /\ tmax_history' = None /\ prcp_history' = None
    /\ raw_entry_counts' = EmptyDict
    /\ data_quality' = EmptyDict
    /\ combined_df' = None
    /\ monthly_history_df' = None
    /\ scanned' = {}
    /\ written' = {}

\* A variant of the skip test with the flag inverted (and overwrite).
SkipsOverwritten(tw, ow) == Exists(output_file(tw)) /\ ow

\* if output_file.exists() and not overwrite: return
SkipsExisting(tw, ow) == Exists(output_file(tw)) /\ ~ow

\* A call that finds its output and returns at once.
CallSkip ==
    /\ pc = "idle"
    /\ \E tw \in TimeWindows, ow \in BOOLEAN :
          /\ SkipsExisting(tw, ow)
          /\ time_window' = tw /\ overwrite' = ow
    /\ FreshLocals
    /\ pc' = "idle"
    /\ raised' = FALSE
    /\ faults' = 0
    /\ UNCHANGED <<orchestration, station, fs>>

\* A call that goes on to the loop over the elements.
CallProceed ==
    /\ pc = "idle"
    /\ \E tw \in TimeWindows, ow \in BOOLEAN :
          /\ ~SkipsExisting(tw, ow)
          /\ time_window' = tw /\ overwrite' = ow
    /\ FreshLocals
    /\ pc' = "element"
    /\ raised' = FALSE
    /\ faults' = 0
    /\ UNCHANGED <<orchestration, station, fs>>

\* A call whose output_file.exists() raises (OSError other than ENOENT,
\* ENOTDIR, EBADF, ELOOP): line 188 is outside every try.
CallRaises ==
    /\ pc = "idle"
    /\ MaxFaults > 0
    /\ \E tw \in TimeWindows, ow \in BOOLEAN :
          time_window' = tw /\ overwrite' = ow
    /\ FreshLocals
    /\ pc' = "idle"
    /\ raised' = TRUE
    /\ faults' = 1
    /\ UNCHANGED <<orchestration, station, fs>>

element == elements[idx]

\* df = pl.scan_parquet(f"data/merged/{element}.parquet")
\*          .filter(pl.col("ID") == station_id)
df == merged[element]

\* `continue`, or the end of the loop
NextElement ==
    IF idx < Len(elements)
    THEN idx' = idx + 1 /\ pc' = "element"
    ELSE idx' = idx /\ pc' = "combine"

\* raw_count: the rows from 1970 on with a non-null value
raw_count(d) == Cardinality({dt \in FromYear(d, StartYear) : ~IsNull(d[dt])})

\* A variant of the handler of a failed read that ends the call (return, not
\* continue).
ElementReadRaisesAborts ==
    /\ pc = "element"
    /\ faults < MaxFaults
    /\ faults' = faults + 1
    /\ scanned' = scanned \cup {element}
    /\ pc' = "idle"
    /\ UNCHANGED <<orchestration, station, args, idx, tables, dicts, outputs, fs, written, raised>>

\* The read of the element raises before the quality gate has answered:
\* nothing is recorded for it.
ElementReadRaises ==
    /\ pc = "element"
    /\ faults < MaxFaults
    /\ faults' = faults + 1
    /\ scanned' = scanned \cup {element}
    /\ NextElement
    /\ UNCHANGED <<orchestration, station, args, tables, dicts, outputs, fs, written, raised>>

\* A variant of the quality gate that goes on to the next element
\* (continue, not return).
ElementPoorQualityContinues ==
    /\ pc = "element"
    /\ ~check_data_quality(df, StartYear).is_good
    /\ data_quality' = Put(data_quality, element, check_data_quality(df, StartYear))
    /\ scanned' = scanned \cup {element}
    /\ NextElement
    /\ UNCHANGED <<orchestration, station, args, tables, raw_entry_counts, outputs, fs, written,
                   raised, faults>>

\* if not is_quality_good: return
ElementPoorQuality ==
    /\ pc = "element"
    /\ ~check_data_quality(df, StartYear).is_good
    /\ data_quality' = Put(data_quality, element, check_data_quality(df, StartYear))
    /\ scanned' = scanned \cup {element}
    /\ pc' = "idle"
    /\ UNCHANGED <<orchestration, station, args, idx, tables, raw_entry_counts, outputs, fs, written,
                   raised, faults>>

\* The quality gate passes, the raw count is taken and the aggregation raises.
ElementAggregationRaises ==
    /\ pc = "element"
    /\ faults < MaxFaults
    /\ check_data_quality(df, StartYear).is_good
    /\ data_quality' = Put(data_quality, element, check_data_quality(df, StartYear))
    /\ raw_entry_counts' = Put(raw_entry_counts, element, raw_count(df))
    /\ faults' = faults + 1
    /\ scanned' = scanned \cup {element}
    /\ NextElement
    /\ UNCHANGED <<orchestration, station, args, tables, outputs, fs, written, raised>>

\* The try body runs to its end for the element.
ElementOk ==
    /\ pc = "element"
    /\ check_data_quality(df, StartYear).is_good
    /\ data_quality' = Put(data_quality, element, check_data_quality(df, StartYear))
    /\ raw_entry_counts' = Put(raw_entry_counts, element, raw_count(df))
    /\ LET converted == UnitConvert(df, element)
           stats_df == calculate_daily_statistics(converted, element)
           monthly == calculate_monthly_statistics(converted, element)
           data == IF time_window = "1d" THEN stats_df ELSE monthly.climatology
           hist == IF time_window = "1d" THEN None ELSE monthly.history
       IN /\ tmin_data' = IF element = "TMIN" THEN data ELSE tmin_data
          /\ tmax_data' = IF element = "TMAX" THEN data ELSE tmax_data
          /\ prcp_data' = IF element \notin {"TMIN", "TMAX"} THEN data ELSE prcp_data
          /\ tmin_history' = IF element = "TMIN" THEN hist ELSE tmin_history
          /\ tmax_history' = IF element = "TMAX" THEN hist ELSE tmax_history
          /\ prcp_history' = IF element \notin {"TMIN", "TMAX"} THEN hist ELSE prcp_history
    /\ scanned' = scanned \cup {element}
    /\ NextElement
    /\ UNCHANGED <<orchestration, station, args, outputs, fs, written, raised, faults>>

\* any([tmin_data is not None, tmax_data is not None, prcp_data is not None])
AnyData == tmin_data # None \/ tmax_data # None \/ prcp_data # None

\* combined_df before the final select, and the columns the select names.
Joined ==
    IF time_window = "1d" THEN DailyJoined(tmin_data, tmax_data, prcp_data)
    ELSE MonthlyJoined(tmin_data, tmax_data, prcp_data)
Columns == IF time_window = "1d" THEN DailyColumns ELSE MonthlyColumns

\* monthly_history_df after the combine: merged in the monthly branch only.
Merged ==
    IF time_window = "1d" THEN None
    ELSE MergeHistory(tmin_history, tmax_history, prcp_history)

\* A variant of the row test that also accepts the empty table (>= 0).
HasRowsOrNone(d) == Len(d.rows) >= 0

\* if len(combined_df) > 0
HasRows(d) == Len(d.rows) > 0

\* else: print("Missing data for station ..., cannot create output file")
CombineMissing ==
    /\ pc = "combine"
    /\ ~AnyData
    /\ pc' = "idle"
    /\ UNCHANGED <<orchestration, station, args, idx, tables, dicts, outputs, fs, scanned, written,
                   raised, faults>>

\* The final select raises; except Exception: print("Error combining data").
\* The frame joined so far is dropped with the locals of the call.
CombineRaises ==
    /\ pc = "combine"
    /\ AnyData
    /\ SelectRaises(Joined, Columns)
    /\ pc' = "idle"
    /\ UNCHANGED <<orchestration, station, args, idx, tables, dicts, outputs, fs, scanned, written,
                   raised, faults>>

\* The combined table has no row: print("No data for station ...").
CombineEmpty ==
    /\ pc = "combine"
    /\ AnyData
    /\ ~SelectRaises(Joined, Columns)
    /\ LET selected == FinalSelect(Joined, Columns)
       IN ~HasRows(selected) /\ combined_df' = selected
    /\ monthly_history_df' = Merged
    /\ pc' = "idle"
    /\ UNCHANGED <<orchestration, station, args, idx, tables, dicts, fs, scanned, written, raised, faults>>

\* A variant of the step to the writes that leaves out the JSON summary (the
\* combined table is written first).
CombineOkSkipsSummary ==
    /\ pc = "combine"
    /\ AnyData
    /\ ~SelectRaises(Joined, Columns)
    /\ LET selected == FinalSelect(Joined, Columns)
       IN HasRows(selected) /\ combined_df' = selected
    /\ monthly_history_df' = Merged
    /\ pc' = "write_combined"
    /\ UNCHANGED <<orchestration, station, args, idx, tables, dicts, fs, scanned, written,
                   raised, faults>>

\* The combined table has rows: on to the writes.
CombineOk ==
    /\ pc = "combine"
    /\ AnyData
    /\ ~SelectRaises(Joined, Columns)
    /\ LET selected == FinalSelect(Joined, Columns)
       IN HasRows(selected) /\ combined_df' = selected
    /\ monthly_history_df' = Merged
    /\ pc' = "write_summary"
    /\ UNCHANGED <<orchestration, station, args, idx, tables, dicts, fs, scanned, written, raised, faults>>

\* stats_summary, as json.dump writes it
stats_summary ==
    ("TMIN_raw_count" :> Get(raw_entry_counts, "TMIN", 0))
    @@ ("TMAX_raw_count" :> Get(raw_entry_counts, "TMAX", 0))
    @@ ("PRCP_raw_count" :> Get(raw_entry_counts, "PRCP", 0))
    @@ (IF time_window = "1mo" /\ monthly_history_df # None
        THEN "monthly_history_rows" :> Len(monthly_history_df.rows)
        ELSE EmptyDict)

\* write_csv(path, float_precision=2): every float is printed with 2 decimals.
WriteCsv(frame) == RoundCols(frame, Range(frame.cols) \cap Range(ValueColumns))

\* output_dir.mkdir(...); with open(summary_file, "w") as sf: json.dump(...)
WriteSummary ==
    /\ pc = "write_summary"
    /\ fs' = [fs EXCEPT ![summary_file(time_window)] = stats_summary]
    /\ written' = written \cup {summary_file(time_window)}
    /\ pc' = "write_combined"
    /\ UNCHANGED <<orchestration, station, args, idx, tables, dicts, outputs, scanned, raised, faults>>

\* combined_df.write_csv(output_file, float_precision=2)
WriteCombined ==
    /\ pc = "write_combined"
    /\ fs' = [fs EXCEPT ![output_file(time_window)] = WriteCsv(combined_df)]
    /\ written' = written \cup {output_file(time_window)}
    /\ pc' = IF monthly_history_df # None THEN "write_history" ELSE "idle"
    /\ UNCHANGED <<orchestration, station, args, idx, tables, dicts, outputs, scanned, raised, faults>>

\* monthly_history_df.write_csv(history_output, float_precision=2)
WriteHistory ==
    /\ pc = "write_history"
    /\ fs' = [fs EXCEPT ![history_output] = WriteCsv(monthly_history_df)]
    /\ written' = written \cup {history_output}
    /\ pc' = "idle"
    /\ UNCHANGED <<orchestration, station, args, idx, tables, dicts, outputs, scanned, raised, faults>>

\* mkdir or a write raises; except Exception: print("Error combining data").
WriteFails ==
    /\ pc \in {"write_summary", "write_combined", "write_history"}
    /\ faults < MaxFaults
    /\ faults' = faults + 1
    /\ pc' = "idle"
    /\ UNCHANGED <<orchestration, station, args, idx, tables, dicts, outputs, fs, scanned, written, raised>>

Next ==
    \/ CallSkip
    \/ CallProceed
    \/ CallRaises
    \/ ElementReadRaises
    \/ ElementPoorQuality
    \/ ElementAggregationRaises
    \/ ElementOk
    \/ CombineMissing
    \/ CombineRaises
    \/ CombineEmpty
    \/ CombineOk
    \/ WriteSummary
    \/ WriteCombined
    \/ WriteHistory
    \/ WriteFails

Spec == Init /\ [][Next]_vars

\* ------------------------------------------------------------ process.py
\* The matched stations, each id split as station_id[:2], station_id[2:3] and
\* station_id[3:].
Stations ==
    <<[a |-> "JA", b |-> "0", c |-> "00047662"],
      [a |-> "CH", b |-> "M", c |-> "00054511"]>>

\* row["ID"]
ID(s) == s.a \o s.b \o s.c

\* prefix = station_id[:3]; if prefix.endswith("0"): prefix = prefix[:-1]
Prefix(s) == IF s.b = "0" THEN s.a ELSE s.a \o s.b

\* Path(f"docs/plots/{prefix}/{station_id}")
StationDir(s) == "docs/plots/" \o Prefix(s) \o "/" \o ID(s)

\* output_dir / f"{station_id}-{name}"
FileOf(s, name) == StationDir(s) \o "/" \o ID(s) \o "-" \o name

GeoJson == "docs/matched_stations.geojson"

DiskPaths ==
    {StationDir(Stations[k]) : k \in DOMAIN Stations}
    \cup {FileOf(Stations[k], name) : k \in DOMAIN Stations, name \in Paths}
    \cup {GeoJson}

\* The tasks process_data applies: <<index of the station, time_window>>.
Tasks == (DOMAIN Stations) \X TimeWindows

\* A path of the disk holds the sequence of its writers, empty when the path
\* does not exist: a task, main, or an earlier run of the program.
Main == <<0, "main">>
Earlier == <<0, "earlier">>
OnDisk(path) == disk[path] # <<>>

\* What an earlier run left of station s: nothing, its directory with the
\* five files, or its directory with the daily files only.
EarlierRuns == {"none", "both", "daily"}
LeftBy(kind, s) ==
    IF kind = "none" THEN {}
    ELSE {StationDir(s)}
         \cup {FileOf(s, name) :
                  name \in IF kind = "both" THEN Paths
                           ELSE {output_file("1d"), summary_file("1d")}}

\* main has read and filtered the stations and enters process_data: p = Pool(8)
MainInit ==
    /\ station_id = "SPARSE"
    /\ NoCallYet
    /\ main_pc = "dispatch"
    /\ row = 1
    /\ queue = <<>>
    /\ task = [t \in Tasks |-> "none"]
    /\ \E left \in [DOMAIN Stations -> EarlierRuns] :
          disk = [path \in DiskPaths |->
                     IF \E k \in DOMAIN Stations : path \in LeftBy(left[k], Stations[k])
                     THEN <<Earlier>> ELSE <<>>]
    /\ features = EmptyDict

\* Path.mkdir(parents=True, exist_ok=True)
Mkdir(d, path, who) == [d EXCEPT ![path] = IF @ = <<>> THEN <<who>> ELSE @]

\* One turn of the loop of process_data: the directory of the station is made
\* and its monthly and daily tasks are applied, overwrite=True.
Dispatch ==
    /\ main_pc = "dispatch"
    /\ row \in DOMAIN Stations
    /\ disk' = Mkdir(disk, StationDir(Stations[row]), Main)
    /\ queue' = queue \o <<<<row, "1mo">>, <<row, "1d">>>>
    /\ task' = [task EXCEPT ![<<row, "1mo">>] = "queued", ![<<row, "1d">>] = "queued"]
    /\ row' = row + 1
    /\ main_pc' = IF row = Len(Stations) THEN "close" ELSE "dispatch"
    /\ UNCHANGED <<call, features>>

\* p.close()
Close ==
    /\ main_pc = "close"
    /\ main_pc' = "join"
    /\ UNCHANGED <<call, row, queue, task, disk, features>>

\* A variant of the barrier that does not wait for the tasks.
JoinNoWait ==
    /\ main_pc = "join"
    /\ main_pc' = "export"
    /\ row' = 1
    /\ UNCHANGED <<call, queue, task, disk, features>>

\* p.join() returns once the workers have exited, every task taken and ended;
\* main goes on to dump_matched_as_geojson.
Join ==
    /\ main_pc = "join"
    /\ \A t \in Tasks : task[t] = "finished"
    /\ main_pc' = "export"
    /\ row' = 1
    /\ UNCHANGED <<call, queue, task, disk, features>>

\* missing_data of dump_matched_as_geojson
missing_data(s) ==
    IF ~OnDisk(StationDir(s)) THEN TRUE
    ELSE ~(OnDisk(FileOf(s, output_file("1d"))) /\ OnDisk(FileOf(s, output_file("1mo"))))

\* One turn of the loop of dump_matched_as_geojson.
Export ==
    /\ main_pc = "export"
    /\ row \in DOMAIN Stations
    /\ features' = Put(features, row, missing_data(Stations[row]))
    /\ row' = row + 1
    /\ main_pc' = IF row = Len(Stations) THEN "dump" ELSE "export"
    /\ UNCHANGED <<call, queue, task, disk>>

\* with open("docs/matched_stations.geojson", "w") as f: json.dump(geojson, f)
Dump ==
    /\ main_pc = "dump"
    /\ disk' = [disk EXCEPT ![GeoJson] = Append(@, Main)]
    /\ main_pc' = "done"
    /\ UNCHANGED <<call, row, queue, task, features>>

\* The positions of a task in which a worker is running it.
Busy == {"running", "summary", "combined"}

\* A free worker takes the task at the head of the queue and calls
\* process_station_data(station_id, time_window, output_dir, True): with
\* overwrite set the call never skips.
TaskStart(t) ==
    /\ queue # <<>>
    /\ Head(queue) = t
    /\ Cardinality({u \in Tasks : task[u] \in Busy}) < PoolWidth
    /\ queue' = Tail(queue)
    /\ task' = [task EXCEPT ![t] = "running"]
    /\ UNCHANGED <<call, main_pc, row, disk, features>>

\* A variant of the end without a write that removes the combined file an
\* earlier run left (the stale output is cleaned up).
TaskReturnsCleans(t) ==
    /\ task[t] = "running"
    /\ task' = [task EXCEPT ![t] = "finished"]
    /\ disk' = [disk EXCEPT ![FileOf(Stations[t[1]], output_file(t[2]))] = <<>>]
    /\ UNCHANGED <<call, main_pc, row, queue, features>>

\* The call ends without a write: the quality gate returns, no element or not
\* every element is present, the combined table has no row, mkdir or the open
\* of the summary raises, or the call raises to the pool, which keeps the
\* exception in a result nobody reads.
TaskReturns(t) ==
    /\ task[t] = "running"
    /\ task' = [task EXCEPT ![t] = "finished"]
    /\ UNCHANGED <<call, main_pc, row, queue, disk, features>>

\* output_dir.mkdir(...); json.dump(stats_summary, sf)
TaskWriteSummary(t) ==
    /\ task[t] = "running"
    /\ disk' = [Mkdir(disk, StationDir(Stations[t[1]]), t)
                   EXCEPT ![FileOf(Stations[t[1]], summary_file(t[2]))] = Append(@, t)]
    /\ task' = [task EXCEPT ![t] = "summary"]
    /\ UNCHANGED <<call, main_pc, row, queue, features>>

\* combined_df.write_csv(output_file)
TaskWriteCombined(t) ==
    /\ task[t] = "summary"
    /\ disk' = [disk EXCEPT ![FileOf(Stations[t[1]], output_file(t[2]))] = Append(@, t)]
    /\ task' = [task EXCEPT ![t] = "combined"]
    /\ UNCHANGED <<call, main_pc, row, queue, features>>

\* monthly_history_df.write_csv(history_output): monthly_history_df is only
\* assigned a table in the monthly branch.
TaskWriteHistory(t) ==
    /\ task[t] = "combined"
    /\ t[2] = "1mo"
    /\ disk' = [disk EXCEPT ![FileOf(Stations[t[1]], history_output)] = Append(@, t)]
    /\ task' = [task EXCEPT ![t] = "finished"]
    /\ UNCHANGED <<call, main_pc, row, queue, features>>

\* The call ends after the combined table: monthly_history_df is None, or the
\* write of the history raises.
TaskEnds(t) ==
    /\ task[t] = "combined"
    /\ task' = [task EXCEPT ![t] = "finished"]
    /\ UNCHANGED <<call, main_pc, row, queue, disk, features>>

\* The write of the combined table raises after the summary was written.
TaskWriteFails(t) ==
    /\ task[t] = "summary"
    /\ task' = [task EXCEPT ![t] = "finished"]
    /\ UNCHANGED <<call, main_pc, row, queue, disk, features>>

MainNext ==
    \/ Dispatch
    \/ Close
    \/ Join
    \/ Export
    \/ Dump
    \/ \E t \in Tasks : TaskStart(t)
    \/ \E t \in Tasks : TaskReturns(t)
    \/ \E t \in Tasks : TaskWriteSummary(t)
    \/ \E t \in Tasks : TaskWriteCombined(t)
    \/ \E t \in Tasks : TaskWriteHistory(t)
    \/ \E t \in Tasks : TaskEnds(t)
    \/ \E t \in Tasks : TaskWriteFails(t)

MainSpec == MainInit /\ [][MainNext]_vars

\* ------------------------------------------------------------------ claims
\* The table and the history of an element, as the call holds them.
Table(e) ==
    IF e = "TMIN" THEN tmin_data ELSE IF e = "TMAX" THEN tmax_data ELSE prcp_data
History(e) ==
    IF e = "TMIN" THEN tmin_history
    ELSE IF e = "TMAX" THEN tmax_history ELSE prcp_history

\* The elements that produced a table, and those left absent.
PresentElements == {e \in Elements : Table(e) # None}
AbsentElements == Elements \ PresentElements

\* No quality result recorded by the call is poor.
AllGood == \A e \in DOMAIN data_quality : data_quality[e].is_good

\* The call went through the whole loop and has returned, and every exception
\* injected into it made one element absent (none hit a write).
ReturnedAfterLoop ==
    /\ pc = "idle"
    /\ scanned = Elements
    /\ AllGood
    /\ faults = Cardinality(AbsentElements)

\* The calendar key of a row, and the keys of a table.
KeyOf(r) ==
    IF "DAY_OF_MONTH" \in DOMAIN r THEN <<r["MONTH"], r["DAY_OF_MONTH"]>>
    ELSE <<r["MONTH"]>>
Keys(frame) == {KeyOf(frame.rows[i]) : i \in DOMAIN frame.rows}

\* The statistic columns of element e that the final select names.
SelectedColumns(e) == Range(StatNames(e)) \cap Range(Columns)

\* Column c of the table is there and null in every row.
NullColumn(frame, c) ==
    /\ c \in Range(frame.cols)
    /\ \A i \in DOMAIN frame.rows : IsNull(frame.rows[i][c])

\* C1: after a call in which a non-empty subset of the elements produced a
\* non-empty table and the others are absent because their read or their
\* aggregation raised, the combined file has been written, with one row per
\* key of the union of the present elements' keys and null in the columns of
\* the absent elements; after a call in which no element is present, no
\* combined file has been written.
C1_AnySubsetWritten ==
    ReturnedAfterLoop =>
        IF PresentElements = {}
        THEN output_file(time_window) \notin written
        ELSE (\A e \in PresentElements : HasRows(Table(e))) =>
                /\ output_file(time_window) \in written
                /\ LET out == fs[output_file(time_window)]
                   IN /\ Keys(out) = UNION {Keys(Table(e)) : e \in PresentElements}
                      /\ Len(out.rows) = Cardinality(Keys(out))
                      /\ \A e \in AbsentElements :
                            \A c \in SelectedColumns(e) : NullColumn(out, c)

\* C2: once the quality gate has answered is_good = False for an element, the
\* call is over: it is back at rest with the loop still at that element, no
\* later element has been read, gated, counted or aggregated, the combiner has
\* produced nothing, and the call has written no file.
C2_QualityAbort ==
    \A e \in DOMAIN data_quality :
        ~data_quality[e].is_good =>
            /\ pc = "idle"
            /\ e = element
            /\ scanned = {elements[i] : i \in 1..idx}
            /\ \A i \in idx..Len(elements) :
                  /\ Table(elements[i]) = None
                  /\ History(elements[i]) = None
                  /\ elements[i] \notin DOMAIN raw_entry_counts
            /\ \A i \in (idx + 1)..Len(elements) : elements[i] \notin DOMAIN data_quality
            /\ combined_df = None
            /\ monthly_history_df = None
            /\ written = {}

\* A call stopped by the gate at TMAX after TMIN had produced a table with rows.
C2_Witness ==
    /\ pc = "idle"
    /\ "TMAX" \in DOMAIN data_quality
    /\ ~data_quality["TMAX"].is_good
    /\ tmin_data # None
    /\ HasRows(tmin_data)
    /\ written = {}

\* Every day of every year from 1970 to the last year of d has a non-null row.
FullyPresent(d) ==
    /\ LastDataYear(d) >= StartYear
    /\ \A y \in StartYear..LastDataYear(d), m \in 1..12 :
          \A dd \in 1..DaysInMonth(y, m) :
              <<y, m, dd>> \in DOMAIN d /\ ~IsNull(d[<<y, m, dd>>])

\* C3: for a station with TMIN and TMAX fully present from 1970 on and no PRCP
\* row at all, a monthly call that no exception disturbs ends having written
\* a combined table of 12 rows with every PRCP column null, a history table
\* without PRCP values, and a JSON summary with PRCP_raw_count = 0.
C3_NoPrcpMonthly ==
    (/\ pc = "idle"
     /\ time_window = "1mo"
     /\ scanned # {}
     /\ faults = 0
     /\ DOMAIN merged["PRCP"] = {}
     /\ FullyPresent(merged["TMIN"])
     /\ FullyPresent(merged["TMAX"]))
    => /\ {output_file("1mo"), summary_file("1mo"), history_output} \subseteq written
       /\ LET out == fs[output_file("1mo")]
              hist == fs[history_output]
          IN /\ Len(out.rows) = 12
             /\ \A c \in Range(StatNames("PRCP")) \cap Range(out.cols) :
                   NullColumn(out, c)
             /\ \A c \in Range(StatNames("PRCP")) \cap Range(hist.cols) :
                   NullColumn(hist, c)
       /\ fs[summary_file("1mo")]["PRCP_raw_count"] = 0

KeyBefore(a, b) == a[1] < b[1] \/ (a[1] = b[1] /\ a[2] < b[2])

\* The daily table `frame` is the union of the tables of the present elements:
\* one row per key of the union, numbered DAY = 1..N in ascending key order,
\* each present element's columns holding its statistics of the key (to two
\* decimals when `rounded`) and null where the element has no row of the key.
DailyUnion(frame, rounded) ==
    LET on == {"MONTH", "DAY_OF_MONTH"}
        rows == frame.rows
    IN /\ Keys(frame) = UNION {Keys(Table(e)) : e \in PresentElements}
       /\ Len(rows) = Cardinality(Keys(frame))
       /\ \A i \in DOMAIN rows : rows[i]["DAY"] = i
       /\ \A i \in DOMAIN rows :
             i < Len(rows) => KeyBefore(KeyOf(rows[i]), KeyOf(rows[i + 1]))
       /\ \A e \in PresentElements :
             LET own == Table(e).rows
                 index == KeyIndex(own, on, 1, Len(own))
             IN \A i \in DOMAIN rows :
                   LET k == [c \in on |-> rows[i][c]]
                   IN \A c \in Range(StatNames(e)) \cap Range(frame.cols) :
                         IF k \in DOMAIN index
                         THEN rows[i][c] = IF rounded THEN Round2(own[index[k]][c])
                                           ELSE own[index[k]][c]
                         ELSE IsNull(rows[i][c])

\* C5: in a daily call, the table the combiner joins (whichever elements are
\* present) and the combined table it selects have exactly one row per
\* (month, day-of-month) key of the union of the present elements' keys, the
\* rows are numbered DAY = 1..N without gap or repeat in ascending key order,
\* whatever the elements' own DAY numbers, and a row whose key a present
\* element lacks holds null in that element's columns.  (combined_df is
\* assigned once in a call: it is looked at where the combiner leaves it.)
C5_DailyUnion ==
    time_window = "1d" =>
        /\ (pc = "combine" /\ AnyData) => DailyUnion(Joined, FALSE)
        /\ (combined_df # None /\ (pc = "write_summary" \/ ~HasRows(combined_df)))
              => DailyUnion(combined_df, TRUE)

\* A daily combined table with more rows than any element's table, with rows
\* that TMAX has and PRCP lacks, and rows that PRCP has and TMAX lacks.
C5_Witness ==
    /\ time_window = "1d"
    /\ combined_df # None
    /\ \A e \in Elements : Len(combined_df.rows) > Len(Table(e).rows)
    /\ \E i \in DOMAIN combined_df.rows :
          /\ ~IsNull(combined_df.rows[i]["TMAX_P90"])
          /\ IsNull(combined_df.rows[i]["PRCP_SUM"])
    /\ \E i \in DOMAIN combined_df.rows :
          /\ IsNull(combined_df.rows[i]["TMAX_P90"])
          /\ ~IsNull(combined_df.rows[i]["PRCP_SUM"])

\* The rows of d dated in or after year c, and those of them with a value.
RowsFrom(d, c) == {dt \in DOMAIN d : dt[1] >= c}
ValidFrom(d, c) == {dt \in RowsFrom(d, c) : ~IsNull(d[dt])}

\* The answer of the quality gate to relation d with cutoff year c is `result`.
QualityIs(result, d, c) ==
    LET total == Cardinality(RowsFrom(d, c))
        valid == Cardinality(ValidFrom(d, c))
    IN /\ result.ratio = IF total = 0 THEN Rat(0, 1) ELSE Rat(valid, total)
       /\ result.is_good <=> (total > 0 /\ 10 * valid >= 7 * total)

\* The element whose quality result the call has just recorded.
JustGated ==
    IF pc = "combine" THEN {elements[Len(elements)]} \cap DOMAIN data_quality
    ELSE IF pc = "element" /\ idx > 1 THEN {elements[idx - 1]} \cap DOMAIN data_quality
    ELSE IF pc = "idle" /\ ~AllGood THEN {element}
    ELSE {}

\* C6: the result recorded for an element is ratio = valid_count / total_count
\* over the rows dated in or after the cutoff year (0.0 when there is none) and
\* is_good exactly when ratio >= 0.70; the same holds of check_data_quality
\* with the next cutoff year, and dropping the rows dated before the cutoff
\* year changes no result.  (A result is looked at in the state that follows
\* its recording.)
C6_QualityRatio ==
    \A e \in JustGated :
        /\ QualityIs(data_quality[e], merged[e], StartYear)
        /\ \A c \in {StartYear, StartYear + 1} :
              LET later == [dt \in RowsFrom(merged[e], c) |-> merged[e][dt]]
                  result == check_data_quality(merged[e], c)
              IN /\ QualityIs(result, merged[e], c)
                 /\ check_data_quality(later, c) = result

\* The gate has answered (True, 7/10) for a relation that also has rows dated
\* before 1970.
C6_Witness ==
    /\ "TMIN" \in JustGated
    /\ data_quality["TMIN"] = [is_good |-> TRUE, ratio |-> Rat(7, 10)]
    /\ \E dt \in DOMAIN merged["TMIN"] : dt[1] < StartYear
    /\ Cardinality(RowsFrom(merged["TMIN"], StartYear)) = 10

\* The element whose aggregation the loop has just left behind.
JustAggregated ==
    IF pc = "combine" THEN {elements[Len(elements)]}
    ELSE IF pc = "element" /\ idx > 1 THEN {elements[idx - 1]}
    ELSE {}

\* The non-null observations of year-month ym in relation d.
ValidOfCell(d, ym) ==
    {dt \in DOMAIN d : dt[1] = ym[1] /\ dt[2] = ym[2] /\ ~IsNull(d[dt])}

\* The year-months from 1970 on of relation d with at least 70% of their
\* calendar days observed.
CompleteCells(d) ==
    {ym \in {<<dt[1], dt[2]>> : dt \in RowsFrom(d, 1970)} :
        10 * Cardinality(ValidOfCell(d, ym)) >= 7 * DaysInMonth(ym[1], ym[2])}

\* C7: right after the monthly aggregation of an element, its history has
\* exactly the (year, month) cells from 1970 on whose count of non-null
\* observations is at least 0.70 of the calendar days of that year-month, its
\* climatology has exactly the months of those cells, and the climatology is
\* the one computed from the input without the rows of the other cells.
C7_CellCompleteness ==
    time_window = "1mo" =>
        \A e \in JustAggregated :
            History(e) # None =>
                LET d == UnitConvert(merged[e], e)
                    kept == CompleteCells(d)
                    retained == [dt \in {x \in DOMAIN d : <<x[1], x[2]>> \in kept} |-> d[dt]]
                IN /\ {<<r["YEAR"], r["MONTH"]>> : r \in Range(History(e).rows)} = kept
                   /\ {r["MONTH"] : r \in Range(Table(e).rows)} = {ym[2] : ym \in kept}
                   /\ Table(e) = calculate_monthly_statistics(retained, e).climatology

\* TMIN has just been aggregated: its history holds April 1971, a cell of 21
\* valid days of 30 (exactly 0.70), and lacks a cell its input has rows of.
C7_Witness ==
    /\ time_window = "1mo"
    /\ "TMIN" \in JustAggregated
    /\ tmin_history # None
    /\ Cardinality(ValidOfCell(merged["TMIN"], <<1971, 4>>)) = 21
    /\ \E r \in Range(tmin_history.rows) : r["YEAR"] = 1971 /\ r["MONTH"] = 4
    /\ \E dt \in RowsFrom(merged["TMIN"], 1970) :
          \A r \in Range(tmin_history.rows) :
              <<r["YEAR"], r["MONTH"]>> # <<dt[1], dt[2]>>

\* C8: a call made while its combined file exists and without the overwrite
\* flag returns at once, having read no input and written no file, and leaves
\* every file as it was; and an existing combined file is written again only
\* by a call made with the overwrite flag.
C8_SkipExisting ==
    [][/\ (pc = "idle" /\ Exists(output_file(time_window')) /\ ~overwrite')
            => (pc' = "idle" /\ fs' = fs /\ scanned' = {} /\ written' = {})
       /\ (Exists(output_file(time_window))
            /\ output_file(time_window) \in written' \ written) => overwrite
       /\ \A path \in Paths : Exists(path) /\ fs'[path] # fs[path] => path \in written'
      ]_vars

\* The state a skipping call leaves: its combined file is there, the flag is
\* not set, nothing was read or written and nothing was raised.
C8_Witness ==
    /\ pc = "idle"
    /\ Exists(output_file(time_window))
    /\ ~overwrite
    /\ scanned = {}
    /\ written = {}
    /\ ~raised

\* C9: a call whose combined table has zero rows is over and has written no
\* combined file, no JSON summary and no history file.
C9_EmptyWritesNothing ==
    (combined_df # None /\ Len(combined_df.rows) = 0) =>
        (pc = "idle" /\ written = {})

\* A monthly call in which the three elements are present and every cell
\* failed the completeness filter: the combined table has no row.
C9_Witness ==
    /\ time_window = "1mo"
    /\ pc = "idle"
    /\ PresentElements = Elements
    /\ combined_df # None
    /\ Len(combined_df.rows) = 0
    /\ \A e \in Elements : RowsFrom(merged[e], 1970) # {}

\* C10: no call ends by raising to its caller.
C10_NeverRaises == ~raised

\* C11: a step of the loop in which the read or the aggregation of an element
\* raises leaves the tables of that element unset and those of the other
\* elements as they were, writes nothing, and goes on to the next element in
\* the order TMIN, TMAX, PRCP, or to the combiner after the last one, never
\* back to rest; the raw count the summary would report for the element is 0
\* when the read raised and the recorded count when the aggregation raised;
\* and the combiner is reached only after every element has been processed.
C11_FaultSkipsElement ==
    [][/\ (pc = "element" /\ faults' = faults + 1) =>
             \E e \in Elements, i \in DOMAIN elements :
                /\ e = element /\ i = idx
                /\ Table(e)' = None /\ History(e)' = None
                /\ tables' = tables
                /\ IF i < Len(elements)
                   THEN pc' = "element" /\ idx' = i + 1
                   ELSE pc' = "combine"
                /\ stats_summary'[e \o "_raw_count"] =
                       IF e \in DOMAIN data_quality' THEN raw_count(merged[e]) ELSE 0
                /\ \A o \in Elements \ {e} :
                       stats_summary'[o \o "_raw_count"] = stats_summary[o \o "_raw_count"]
                /\ fs' = fs /\ written' = written /\ ~raised'
       /\ pc' = "combine" => scanned' = Elements
      ]_vars

\* The combiner is reached after the aggregation of TMIN raised with its raw
\* count recorded, and TMAX and PRCP were processed into tables all the same.
C11_Witness ==
    /\ pc = "combine"
    /\ faults = 1
    /\ tmin_data = None
    /\ "TMIN" \in DOMAIN raw_entry_counts
    /\ raw_entry_counts["TMIN"] > 0
    /\ tmax_data # None /\ HasRows(tmax_data)
    /\ prcp_data # None /\ HasRows(prcp_data)

\* C12: the climatology a monthly aggregation returns has 12 rows, one per
\* calendar month 1..12, and a written monthly combined table (its three
\* elements passed the quality gate) has exactly 12 rows.
C12_TwelveRows ==
    /\ time_window = "1mo" =>
          \A e \in JustAggregated :
              Table(e) # None =>
                  /\ Len(Table(e).rows) = 12
                  /\ \A m \in 1..12 : Table(e).rows[m]["MONTH"] = m
    /\ (/\ Exists(output_file("1mo"))
        /\ \A e \in Elements : check_data_quality(merged[e], StartYear).is_good)
          => Len(fs[output_file("1mo")].rows) = 12

\* The years from 1970 on in which relation d has a row of calendar day
\* (m, dd), and the values of those rows.
DayYears(d, last, m, dd) == {y \in StartYear..last : <<y, m, dd>> \in DOMAIN d}
YearsOfDay(d, m, dd) == DayYears(d, LastDataYear(d), m, dd)
ValuesOfDay(d, m, dd) == {d[<<y, m, dd>>] : y \in YearsOfDay(d, m, dd)}

\* C13: right after the daily aggregation of an element, the annual P10 and
\* P90 of every (year, month, day-of-month) cell, which holds the single
\* observation v, are v, and the climatology row of a calendar day whose
\* cells hold the same non-null value v in every year has P10 = P90 = v.
C13_SingleObservation ==
    time_window = "1d" =>
        \A e \in JustAggregated :
            Table(e) # None =>
                LET d == UnitConvert(merged[e], e)
                    last == LastDataYear(d)
                IN
                /\ \A dt \in FromYear(d, StartYear) :
                      /\ ColQuantile(GroupCol(d, <<dt>>), 1) = d[dt]
                      /\ ColQuantile(GroupCol(d, <<dt>>), 9) = d[dt]
                /\ \A r \in Range(Table(e).rows) :
                      LET m == r["MONTH"]
                          dd == r["DAY_OF_MONTH"]
                          vs == {d[<<y, m, dd>>] : y \in DayYears(d, last, m, dd)}
                      IN (Cardinality(vs) = 1 /\ NULL \notin vs) =>
                            /\ {r[Col(e, "P10")]} = vs
                            /\ {r[Col(e, "P90")]} = vs

\* PRCP has just been aggregated: 6 March holds the same value, not zero, in
\* its two years and its row has P10 = P90 = that value, while 1 March holds
\* different values in its three years.
C13_Witness ==
    /\ time_window = "1d"
    /\ "PRCP" \in JustAggregated
    /\ prcp_data # None
    /\ Cardinality(YearsOfDay(merged["PRCP"], 3, 6)) = 2
    /\ Cardinality(ValuesOfDay(merged["PRCP"], 3, 1)) > 1
    /\ \E r \in Range(prcp_data.rows) :
          /\ r["MONTH"] = 3 /\ r["DAY_OF_MONTH"] = 6
          /\ r["PRCP_P10"] = r["PRCP_P90"]
          /\ r["PRCP_P10"].n > 0
          /\ ValuesOfDay(merged["PRCP"], 3, 6) = {r["PRCP_P10"]}

\* The paths task t has written.
WrittenBy(t) == {path \in DiskPaths : \E n \in DOMAIN disk[path] : disk[path][n] = t}

\* C14: while main is in the GeoJSON export (its existence checks, the dump
\* of the file, and after), every task applied by process_data, the monthly
\* and the daily one of every station, has finished, whether it wrote output
\* or not: none is queued, running or between two writes.
C14_ExportAfterJoin ==
    main_pc \in {"export", "dump", "done"} =>
        /\ queue = <<>>
        /\ \A k \in DOMAIN Stations, tw \in TimeWindows : task[<<k, tw>>] = "finished"

\* The export is checking the files while one task has written its three
\* files, one has ended without writing, and the tasks had to wait for a
\* worker (there are more tasks than workers).
C14_Witness ==
    /\ main_pc = "export"
    /\ Cardinality(Tasks) > PoolWidth
    /\ \E t \in Tasks : Cardinality(WrittenBy(t)) = 3
    /\ \E t \in Tasks : WrittenBy(t) = {}

\* The paths the call of task t may write: its summary, its combined table
\* and, in a monthly call, the history.
PathsOf(t) ==
    {FileOf(Stations[t[1]], summary_file(t[2])), FileOf(Stations[t[1]], output_file(t[2]))}
    \cup (IF t[2] = "1mo" THEN {FileOf(Stations[t[1]], history_output)} ELSE {})

\* C15: under every interleaving of the tasks, no path has been written by
\* two tasks: a task writes only the paths its (station_id, period) determine,
\* and the paths of two tasks, those of the monthly and the daily task of one
\* station and directory included, have none in common.
C15_DisjointWrites ==
    /\ \A path \in DiskPaths : Cardinality({t \in Tasks : path \in WrittenBy(t)}) <= 1
    /\ \A t \in Tasks : WrittenBy(t) \subseteq PathsOf(t)
    /\ \A t \in Tasks, u \in Tasks : t # u => PathsOf(t) \cap PathsOf(u) = {}

\* The monthly and the daily task of the first station are running at the
\* same time, each between its summary and its combined table, in the one
\* directory they share.
C15_Witness ==
    /\ task[<<1, "1mo">>] = "summary"
    /\ task[<<1, "1d">>] = "summary"
    /\ StationDir(Stations[1]) # StationDir(Stations[2])
    /\ WrittenBy(<<1, "1mo">>) # {}
    /\ WrittenBy(<<1, "1d">>) # {}

\* The smallest and the largest value of a set of values, null for the empty
\* set.
SetMin(S) == IF S = {} THEN NULL ELSE CHOOSE x \in S : \A y \in S : ~RatLess(y, x)
SetMax(S) == IF S = {} THEN NULL ELSE CHOOSE x \in S : \A y \in S : ~RatLess(x, y)

\* The sum of f over the indices I, and the arithmetic mean of the non-null
\* values of f (null when there is none).
RECURSIVE SumFn(_, _)
SumFn(f, I) ==
    IF I = {} THEN Rat(0, 1)
    ELSE LET i == CHOOSE j \in I : TRUE IN RatAdd(f[i], SumFn(f, I \ {i}))
MeanFn(f) ==
    LET I == {i \in DOMAIN f : ~IsNull(f[i])}
    IN IF I = {} THEN NULL ELSE RatDivInt(SumFn(f, I), Cardinality(I))

\* The daily table `frame` of element e is the second stage over the years of
\* relation d: the per-year values of a calendar day are those of its single
\* observations (P10, P90, MIN and MAX the observation, SUM the observation
\* or 0 for a null one).
DailySecondStage(frame, d, e) ==
    LET last == LastDataYear(d) IN
    \A r \in Range(frame.rows) :
        LET ys == DayYears(d, last, r["MONTH"], r["DAY_OF_MONTH"])
            obs == [y \in ys |-> d[<<y, r["MONTH"], r["DAY_OF_MONTH"]>>]]
            valid == {y \in ys : ~IsNull(obs[y])}
        IN /\ r[Col(e, "P10")] = MeanFn(obs)
           /\ r[Col(e, "P90")] = MeanFn(obs)
           /\ r[Col(e, "SUM")] = RatDivInt(SumFn(obs, valid), Cardinality(ys))
           /\ r[Col(e, "MIN")] = SetMin({obs[y] : y \in valid})
           /\ r[Col(e, "MAX")] = SetMax({obs[y] : y \in valid})

\* The monthly climatology `frame` of element e is the second stage over the
\* per-year rows of `history`, the retained cells of relation d.
MonthlySecondStage(frame, history, d, e) ==
    LET kept == CompleteCells(d) IN
    \A r \in Range(frame.rows) :
        LET I == {i \in DOMAIN history.rows : history.rows[i]["MONTH"] = r["MONTH"]}
            per(c) == [i \in I |-> history.rows[i][c]]
            seen == {d[dt] : dt \in {x \in DOMAIN d :
                                       x[2] = r["MONTH"] /\ <<x[1], x[2]>> \in kept}}
                    \ {NULL}
        IN /\ r[Col(e, "P10")] = MeanFn(per(Col(e, "P10")))
           /\ r[Col(e, "P90")] = MeanFn(per(Col(e, "P90")))
           /\ r[Col(e, "SUM")] = MeanFn(per(Col(e, "SUM")))
           /\ r[Col(e, "MIN")] = SetMin({per(Col(e, "MIN"))[i] : i \in I})
           /\ r[Col(e, "MAX")] = SetMax({per(Col(e, "MAX"))[i] : i \in I})
           /\ r[Col(e, "MIN")] = SetMin(seen)
           /\ r[Col(e, "MAX")] = SetMax(seen)

\* C16: right after the aggregation of an element, every row of its
\* climatology is the second stage over the per-year cells of its calendar
\* position: P10, P90 and SUM are the arithmetic mean of the per-year values,
\* MIN is the smallest and MAX the largest per-year value, and MIN (MAX) is
\* the minimum (maximum) of all non-null observations dated 1970 or later on
\* that calendar position (in the monthly case, of the retained cells only).
C16_SecondStage ==
    \A e \in JustAggregated :
        Table(e) # None =>
            IF time_window = "1d"
            THEN DailySecondStage(Table(e), UnitConvert(merged[e], e), e)
            ELSE MonthlySecondStage(Table(e), History(e), UnitConvert(merged[e], e), e)

\* TMAX has just been aggregated in a monthly call: January has two retained
\* cells whose maxima differ, and the climatology of January holds the
\* larger one and a P90 that is neither cell's own.
C16_Witness ==
    /\ time_window = "1mo"
    /\ "TMAX" \in JustAggregated
    /\ tmax_data # None /\ tmax_history # None
    /\ \E i, j \in DOMAIN tmax_history.rows, k \in DOMAIN tmax_data.rows :
          /\ tmax_history.rows[i]["MONTH"] = 1 /\ tmax_history.rows[j]["MONTH"] = 1
          /\ tmax_data.rows[k]["MONTH"] = 1
          /\ RatLess(tmax_history.rows[j]["TMAX_MAX"], tmax_history.rows[i]["TMAX_MAX"])
          /\ tmax_data.rows[k]["TMAX_MAX"] = tmax_history.rows[i]["TMAX_MAX"]
          /\ tmax_data.rows[k]["TMAX_P90"] # tmax_history.rows[i]["TMAX_P90"]
          /\ tmax_data.rows[k]["TMAX_P90"] # tmax_history.rows[j]["TMAX_P90"]

\* The (year, month) keys of a history table.
YearMonths(frame) == {<<r["YEAR"], r["MONTH"]>> : r \in Range(frame.rows)}

\* The elements whose history is set, and those whose history has rows.
WithHistory == {e \in Elements : History(e) # None}
WithHistoryRows == {e \in WithHistory : Len(History(e).rows) > 0}

\* `frame` is the union of the histories the call holds: one row per
\* (year, month) key of the histories that have rows, in ascending order, its
\* PERIOD_START the first day of the year-month; the columns of an element
\* with a history hold its statistics of the key, to two decimals, and its
\* entry count, or null where it has no row of the key; an element without
\* history has no column.
HistoryUnion(frame) ==
    LET on == {"YEAR", "MONTH"}
        rows == frame.rows
        own(e) == Range(StatNames(e)) \cup {Col(e, "ENTRY_COUNT")}
    IN /\ YearMonths(frame) = UNION {YearMonths(History(e)) : e \in WithHistoryRows}
       /\ Len(rows) = Cardinality(YearMonths(frame))
       /\ \A i \in DOMAIN rows :
             /\ rows[i]["PERIOD_START"] = <<rows[i]["YEAR"], rows[i]["MONTH"], 1>>
             /\ i < Len(rows) =>
                   \/ rows[i]["YEAR"] < rows[i + 1]["YEAR"]
                   \/ /\ rows[i]["YEAR"] = rows[i + 1]["YEAR"]
                      /\ rows[i]["MONTH"] < rows[i + 1]["MONTH"]
       /\ Range(frame.cols) =
             {"PERIOD_START", "YEAR", "MONTH"} \cup UNION {own(e) : e \in WithHistory}
       /\ Len(frame.cols) = Cardinality(Range(frame.cols))
       /\ \A e \in WithHistory :
             LET h == History(e).rows
                 index == KeyIndex(h, on, 1, Len(h))
             IN \A i \in DOMAIN rows :
                   LET k == [c \in on |-> rows[i][c]]
                   IN IF k \in DOMAIN index
                      THEN /\ \A c \in Range(StatNames(e)) :
                                 rows[i][c] = Round2(h[index[k]][c])
                           /\ rows[i][Col(e, "ENTRY_COUNT")] =
                                 h[index[k]][Col(e, "ENTRY_COUNT")]
                      ELSE \A c \in own(e) : IsNull(rows[i][c])

\* C17: in a monthly call, the history table the merge gives for the
\* histories the loop has left (whichever elements have one), and the merged
\* history the call holds, have exactly one row for each (year, month) key of
\* the union of the keys of the histories that have rows, sorted ascending by
\* (year, month), with PERIOD_START the first day of the year-month; a key
\* missing from a present element's history carries null in that element's
\* statistic and entry-count columns, an absent element contributes no
\* column, and there is no merged table exactly when no history has rows.
C17_HistoryUnion ==
    time_window = "1mo" =>
        /\ pc = "combine" =>
              /\ (Merged = None) <=> (WithHistoryRows = {})
              /\ Merged # None => HistoryUnion(Merged)
        /\ monthly_history_df # None => HistoryUnion(monthly_history_df)

\* The merged history of a monthly call has more rows than the history of any
\* element, a row of a year-month TMAX has and TMIN lacks, and a row of a
\* year-month PRCP has and TMAX lacks.
C17_Witness ==
    /\ time_window = "1mo"
    /\ monthly_history_df # None
    /\ \A e \in Elements : Len(monthly_history_df.rows) > Len(History(e).rows)
    /\ \E i \in DOMAIN monthly_history_df.rows :
          /\ IsNull(monthly_history_df.rows[i]["TMIN_P10"])
          /\ IsNull(monthly_history_df.rows[i]["TMIN_ENTRY_COUNT"])
          /\ ~IsNull(monthly_history_df.rows[i]["TMAX_P10"])
    /\ \E i \in DOMAIN monthly_history_df.rows :
          /\ IsNull(monthly_history_df.rows[i]["TMAX_SUM"])
          /\ ~IsNull(monthly_history_df.rows[i]["PRCP_SUM"])

\* Relation d without its rows dated before 1970.
Since1970(d) == [dt \in {x \in DOMAIN d : x[1] >= 1970} |-> d[dt]]

\* C18: the rows dated before 1970 have no effect on what a call computes
\* from an element: the quality result, the raw count, the table and the
\* history it has just recorded are those the same step gives for the
\* relation without those rows.  (The combined table, the merged history and
\* the JSON summary are computed from these alone.)
C18_Before1970 ==
    /\ \A e \in JustGated :
          data_quality[e] = check_data_quality(Since1970(merged[e]), StartYear)
    /\ \A e \in JustAggregated :
          LET later == Since1970(merged[e]) IN
          /\ e \in DOMAIN raw_entry_counts => raw_entry_counts[e] = raw_count(later)
          /\ Table(e) # None =>
                IF time_window = "1d"
                THEN Table(e) = calculate_daily_statistics(UnitConvert(later, e), e)
                ELSE LET monthly == calculate_monthly_statistics(UnitConvert(later, e), e)
                     IN Table(e) = monthly.climatology /\ History(e) = monthly.history

\* TMIN has just been aggregated into a table with rows from a relation that
\* has a non-null row dated before 1970 whose value is below every minimum of
\* the table.
C18_Witness ==
    /\ "TMIN" \in JustAggregated
    /\ tmin_data # None
    /\ HasRows(tmin_data)
    /\ \E dt \in DOMAIN merged["TMIN"] :
          /\ dt[1] < 1970
          /\ ~IsNull(merged["TMIN"][dt])
          /\ \A r \in Range(tmin_data.rows) :
                RatLess(RatDivInt(merged["TMIN"][dt], 10), r["TMIN_MIN"])

\* C19: the output directory being empty at first, in every state reached by
\* calls of any arguments, failed writes included, a combined file exists
\* only if the JSON summary of its period exists, and the history file only
\* if the monthly combined file does; a call has written its combined table
\* only after its summary and its history only after its combined table.  A
\* call that skips (its combined file exists, overwrite not set) therefore
\* finds the summary in place.
C19_SummaryFirst ==
    /\ \A tw \in TimeWindows : Exists(output_file(tw)) => Exists(summary_file(tw))
    /\ Exists(history_output) => Exists(output_file("1mo"))
    /\ output_file(time_window) \in written => summary_file(time_window) \in written
    /\ history_output \in written => output_file(time_window) \in written
    /\ (pc = "idle" /\ SkipsExisting(time_window, overwrite)) =>
           Exists(summary_file(time_window))

\* A monthly call has ended on a failed write of the combined table, after
\* the summary: the summary is there without the combined table, next to the
\* daily files of an earlier call.
C19_Witness ==
    /\ pc = "idle"
    /\ time_window = "1mo"
    /\ written = {summary_file("1mo")}
    /\ Exists(summary_file("1mo"))
    /\ ~Exists(output_file("1mo"))
    /\ Exists(output_file("1d"))

\* The MONTH values of a table.
MonthsOf(frame) == {r["MONTH"] : r \in Range(frame.rows)}

\* C20: in a monthly call, a combined table with at least one row comes with
\* a merged history that has rows, and the MONTH values of the combined
\* table are those occurring in the merged history; a call that has written
\* the combined table and ended without a failed write has written the
\* history file too, and its JSON summary holds monthly_history_rows, the
\* number of rows of that file.
C20_HistoryWithCombined ==
    time_window = "1mo" =>
        /\ (combined_df # None /\ HasRows(combined_df)) =>
              /\ monthly_history_df # None
              /\ HasRows(monthly_history_df)
              /\ MonthsOf(combined_df) = MonthsOf(monthly_history_df)
        /\ (pc = "idle" /\ output_file("1mo") \in written /\ faults = 0) =>
              /\ history_output \in written
              /\ summary_file("1mo") \in written
              /\ "monthly_history_rows" \in DOMAIN fs[summary_file("1mo")]
              /\ fs[summary_file("1mo")]["monthly_history_rows"] =
                    Len(fs[history_output].rows)
              /\ Len(fs[history_output].rows) > 0
              /\ MonthsOf(fs[output_file("1mo")]) = MonthsOf(fs[history_output])

\* A monthly call has completed with its three files written: the combined
\* table has fewer rows than the history, which has several years of a month.
C20_Witness ==
    /\ pc = "idle"
    /\ time_window = "1mo"
    /\ faults = 0
    /\ written = {summary_file("1mo"), output_file("1mo"), history_output}
    /\ Len(fs[output_file("1mo")].rows) < Len(fs[history_output].rows)

\* The combined files of station s are both on disk.
BothCombined(s) ==
    OnDisk(FileOf(s, output_file("1d"))) /\ OnDisk(FileOf(s, output_file("1mo")))

\* C21: no step deletes a file or a directory, and a step changes a file only
\* by the write of a task to one of its own paths (or of main to the GeoJSON
\* file), so a task that ends without writing leaves the files of an earlier
\* run as they were; and every MISSING the export has computed is false
\* exactly when the daily and the monthly combined file of the station are
\* both on disk, whoever wrote them, an earlier run included.
C21_FilesKept ==
    [][/\ \A path \in DiskPaths :
             /\ Len(disk[path]) <= Len(disk'[path])
             /\ SubSeq(disk'[path], 1, Len(disk[path])) = disk[path]
             /\ disk'[path] # disk[path] =>
                   \/ main_pc = "dump" /\ path = GeoJson
                   \/ main_pc = "dispatch" /\ path = StationDir(Stations[row])
                   \/ \E t \in Tasks :
                         /\ path \in PathsOf(t)
                         /\ task[t] \in {"running", "summary", "combined"}
                         /\ task'[t] # task[t]
                         /\ task'[t] # "finished" \/ path = FileOf(Stations[t[1]], history_output)
                         /\ disk'[path] = Append(disk[path], t)
       /\ \A t \in Tasks :
             (task'[t] = "finished" /\ WrittenBy(t)' = {}) =>
                 \A path \in PathsOf(t) : disk'[path] \in {<<>>, <<Earlier>>}
       /\ \A k \in DOMAIN features' :
             features'[k] = ~BothCombined(Stations[k])'
      ]_vars

\* The export has computed MISSING = false for the first station, whose two
\* tasks ended without writing and whose combined files are those of an
\* earlier run, and MISSING = true for the second, which has its daily file
\* from an earlier run and no monthly file.
C21_Witness ==
    /\ main_pc = "dump"
    /\ features[1] = FALSE
    /\ WrittenBy(<<1, "1d">>) = {} /\ WrittenBy(<<1, "1mo">>) = {}
    /\ disk[FileOf(Stations[1], output_file("1d"))] = <<Earlier>>
    /\ disk[FileOf(Stations[1], output_file("1mo"))] = <<Earlier>>
    /\ features[2] = TRUE
    /\ OnDisk(FileOf(Stations[2], output_file("1d")))
    /\ ~OnDisk(FileOf(Stations[2], output_file("1mo")))
====
